---- MODULE Spec2Model ----
(***************************************************************************)
(* A model of the CHIP-8 interpreter of src/interp/src/main.rs: the        *)
(* Emulator (memory, framebuffer, registers, call stack), the instruction  *)
(* decoder, the fetch / decode / execute loop of main, and the timer       *)
(* thread (tick) that shares the delay and sound timers with the engine    *)
(* through two mutexes.                                                    *)
(***************************************************************************)
EXTENDS Integers, Sequences, FiniteSets, TLC

VARIABLES
    emu,             \* struct Emulator: mem, disp, pc, idx, stack, reg
    delay,           \* the u8 behind emu.delay (Arc<Mutex<u8>>)
    sound,           \* the u8 behind emu.sound (Arc<Mutex<u8>>)
    delayLock,       \* who holds the delay mutex: "free", "engine", "tick"
    soundLock,       \* who holds the sound mutex
    eng,             \* where the main loop is: "fetch", "execute", "locked",
                     \* "unlock", "panicked"
    instr,           \* the Instruction of the current cycle
    tpc,             \* where the timer thread is in tick's loop
    td,              \* the timer value the timer thread tested (*d, *s)
    keys,            \* the keys is_key_down reports held (indices 0..15)
    overflow_checks, \* the build: TRUE panics on integer overflow (debug),
                     \* FALSE wraps (release)
    access,          \* history: the highest indices the last engine step used
    at,              \* history: the address the current instruction was
                     \* fetched at
    calls,           \* history: the open calls, innermost last
    cycles,          \* history: fetches done so far
    dSet, dTicks,    \* history: last value the engine wrote to the delay
                     \* timer, and the ticks of it since (up to that value)
    sSet, sTicks,    \* the same for the sound timer
    probe            \* history of the unit specifications (stack, pixel)

vars == <<emu, delay, sound, delayLock, soundLock, eng, instr, tpc, td, keys,
          overflow_checks, access, at, calls, cycles, dSet, dTicks, sSet, sTicks,
          probe>>

(***************************************************************************)
(* Program constants.                                                      *)
(***************************************************************************)
MEM_SIZE == 4096
DISP_SIZE == 256
TOTAL_PIXELS == 2048
PROGRAM_START == 512
NUM_KEYS == 16
U8 == 256
U16 == 65536

FONT ==
    << 240, 144, 144, 144, 240,     32,  96,  32,  32, 112,
       240,  16, 240, 128, 240,    240,  16, 240,  16, 240,
       144, 144, 240,  16,  16,    240, 128, 240,  16, 240,
       240, 128, 240, 144, 240,    240,  16,  32,  64,  64,
       240, 144, 240, 144, 240,    240, 144, 240,  16, 240,
       240, 144, 240, 144, 144,    224, 144, 224, 144, 224,
       240, 128, 128, 128, 240,    224, 144, 144, 144, 224,
       240, 128, 240, 128, 240,    240, 128, 240, 128, 128 >>

(***************************************************************************)
(* Option<T>: None is the empty tuple, Some(v) the one-element tuple.      *)
(***************************************************************************)
None == << >>
Some(v) == << v >>
Unwrap(o) == o[1]

(***************************************************************************)
(* Bit operations on naturals.                                             *)
(***************************************************************************)
RECURSIVE BitAnd(_, _)
BitAnd(a, b) ==
    IF a = 0 \/ b = 0 THEN 0
    ELSE (a % 2) * (b % 2) + 2 * BitAnd(a \div 2, b \div 2)

RECURSIVE BitOr(_, _)
BitOr(a, b) ==
    IF a = 0 THEN b
    ELSE IF b = 0 THEN a
    ELSE (IF a % 2 = 1 \/ b % 2 = 1 THEN 1 ELSE 0) + 2 * BitOr(a \div 2, b \div 2)

RECURSIVE BitXor(_, _)
BitXor(a, b) ==
    IF a = 0 THEN b
    ELSE IF b = 0 THEN a
    ELSE ((a + b) % 2) + 2 * BitXor(a \div 2, b \div 2)

Shr(a, k) == a \div (2 ^ k)
Shl8(a, k) == (a * (2 ^ k)) % U8

Max(a, b) == IF a >= b THEN a ELSE b
Min(a, b) == IF a <= b THEN a ELSE b

(***************************************************************************)
(* Stack: a chain of boxed frames, top first.                              *)
(***************************************************************************)
StackNew == [top |-> None]

\* mutant: a push that drops the frames below
StackPushAlone(s, value) == [top |-> Some([value |-> value, next |-> None])]

StackPush(s, value) == [top |-> Some([value |-> value, next |-> s.top])]

\* mutant: a pop that returns a default address on an empty stack
StackPopOrZero(s) ==
    IF s.top = None
    THEN [ret |-> Some(0), stack |-> [top |-> None]]
    ELSE [ret |-> Some(Unwrap(s.top).value), stack |-> [top |-> Unwrap(s.top).next]]

\* pop returns the value popped, or None, and the stack it leaves
StackPop(s) ==
    IF s.top = None
    THEN [ret |-> None, stack |-> [top |-> None]]
    ELSE [ret |-> Some(Unwrap(s.top).value), stack |-> [top |-> Unwrap(s.top).next]]

StackPeak(s) == IF s.top = None THEN None ELSE Some(Unwrap(s.top).value)

RECURSIVE FrameValues(_)
FrameValues(f) == IF f = None THEN << >> ELSE <<Unwrap(f).value>> \o FrameValues(Unwrap(f).next)

\* the values on the stack, top first
StackValues(s) == FrameValues(s.top)

(***************************************************************************)
(* Memory.                                                                 *)
(***************************************************************************)
init_font == [a \in 0 .. MEM_SIZE - 1 |-> IF a < Len(FONT) THEN FONT[a + 1] ELSE 0]

\* loadROM: the image's bytes copied to PROGRAM_START (an image that fits)
loadROM(m, bytes) ==
    [a \in 0 .. MEM_SIZE - 1 |->
        IF a >= PROGRAM_START /\ a < PROGRAM_START + Len(bytes)
        THEN bytes[a - PROGRAM_START + 1] ELSE m[a]]

EmulatorInit ==
    [mem |-> init_font,
     disp |-> [i \in 0 .. DISP_SIZE - 1 |-> 0],
     pc |-> PROGRAM_START,
     idx |-> 0,
     stack |-> StackNew,
     reg |-> [i \in 0 .. 15 |-> 0]]

\* getDWord: the big-endian word at addr; the index is checked by the caller
getDWord(e, addr) == e.mem[addr] * 256 + e.mem[addr + 1]

(***************************************************************************)
(* Framebuffer.                                                            *)
(***************************************************************************)
readPixel(d, pixel) ==
    LET px_o == pixel % 8
        px_i == (pixel - px_o) \div 8
    IN  Shr(d[px_i], px_o) % 2

\* mutant: disp[px_i] |= value << px_o
writePixelOr(d, pixel, value) ==
    LET px_o == pixel % 8
        px_i == ((pixel - px_o) \div 8) % TOTAL_PIXELS
    IN  IF px_i >= DISP_SIZE
        THEN [disp |-> d, ret |-> 0, panic |-> TRUE, index |-> px_i]
        ELSE LET old == d[px_i]
                 new == BitOr(old, Shl8(value, px_o))
             IN  [disp |-> [d EXCEPT ![px_i] = new],
                  ret |-> IF old = new THEN 1 ELSE 0,
                  panic |-> FALSE,
                  index |-> px_i]

\* writePixel: disp[px_i] ^= value << px_o; returns 1 when the byte is the
\* same after the XOR. An index outside the array panics.
writePixel(d, pixel, value) ==
    LET px_o == pixel % 8
        px_i == ((pixel - px_o) \div 8) % TOTAL_PIXELS
    IN  IF px_i >= DISP_SIZE
        THEN [disp |-> d, ret |-> 0, panic |-> TRUE, index |-> px_i]
        ELSE LET old == d[px_i]
                 new == BitXor(old, Shl8(value, px_o))
             IN  [disp |-> [d EXCEPT ![px_i] = new],
                  ret |-> IF old = new THEN 1 ELSE 0,
                  panic |-> FALSE,
                  index |-> px_i]

(***************************************************************************)
(* Instruction decoder.                                                    *)
(***************************************************************************)
PARSE_FORMAT_1(raw, ins) == [ins EXCEPT !.op1 = Some(raw % 4096)]

PARSE_FORMAT_2(raw, ins) ==
    [ins EXCEPT !.op1 = Some(Shr(raw, 8) % 16), !.op2 = Some(raw % 256)]

PARSE_FORMAT_3(raw, ins) ==
    [ins EXCEPT !.op1 = Some(Shr(raw, 8) % 16),
                !.op2 = Some(Shr(raw, 4) % 16),
                !.op3 = Some(raw % 16)]

InstructionNew(raw) ==
    LET ins == [opcode |-> Shr(raw, 12) % 16, op1 |-> None, op2 |-> None, op3 |-> None]
    IN  IF ins.opcode \in {0, 1, 2, 10, 11} THEN PARSE_FORMAT_1(raw, ins)
        ELSE IF ins.opcode \in {3, 4, 6, 7, 12, 14, 15} THEN PARSE_FORMAT_2(raw, ins)
        ELSE IF ins.opcode \in {5, 8, 13} THEN PARSE_FORMAT_3(raw, ins)
        ELSE ins

decode(dword) == InstructionNew(dword)

NoInstr == [opcode |-> 0, op1 |-> None, op2 |-> None, op3 |-> None]

(***************************************************************************)
(* The outcome of one engine step: the Emulator it leaves, whether it      *)
(* panicked (an index out of range, or an overflow in a build that checks  *)
(* it), and the highest indices it used: into mem, as a pixel number, into *)
(* disp (-1: none).                                                        *)
(***************************************************************************)
NoAccess == [mem |-> 0 - 1, pixel |-> 0 - 1, disp |-> 0 - 1]
Done(e) == [emu |-> e, panic |-> FALSE, access |-> NoAccess]
DoneAt(e, acc) == [emu |-> e, panic |-> FALSE, access |-> acc]
Panic(e, acc) == [emu |-> e, panic |-> TRUE, access |-> acc]

\* the highest index a run of mem[first], ..., mem[last] uses: it stops at
\* the first index outside the array
MemReach(first, last) == IF last < MEM_SIZE THEN last ELSE Max(first, MEM_SIZE)

\* fetch: getDWord(pc), then pc += 2
fetch(e) ==
    IF e.pc + 1 >= MEM_SIZE
    THEN [out |-> Panic(e, [NoAccess EXCEPT !.mem = MemReach(e.pc, e.pc + 1)]), raw |-> 0]
    ELSE [out |-> DoneAt([e EXCEPT !.pc = e.pc + 2], [NoAccess EXCEPT !.mem = e.pc + 1]),
          raw |-> getDWord(e, e.pc)]

(***************************************************************************)
(* Draw-sprite (Dxyn).                                                     *)
(***************************************************************************)
\* for i in 0..n { sprite[i] = getWord(idx + i) }: the u16 sum idx + i may
\* overflow, the index may be outside mem
RECURSIVE ReadSprite(_, _, _, _, _)
ReadSprite(e, i, n, oc, sprite) ==
    IF i >= n THEN [sprite |-> sprite, panic |-> FALSE, mem |-> 0 - 1]
    ELSE IF e.idx + i >= U16 /\ oc THEN [sprite |-> sprite, panic |-> TRUE, mem |-> 0 - 1]
    ELSE LET addr == (e.idx + i) % U16
         IN  IF addr >= MEM_SIZE THEN [sprite |-> sprite, panic |-> TRUE, mem |-> addr]
             ELSE LET rest == ReadSprite(e, i + 1, n, oc, [sprite EXCEPT ![i] = e.mem[addr]])
                  IN  [rest EXCEPT !.mem = Max(addr, rest.mem)]

\* for o in 0..8 { if writePixel(px + o, (row >> (7 - o)) & 1) == 1 { VF = 1 } }
RECURSIVE DrawRow(_, _, _, _, _)
DrawRow(d, px, row, o, VF) ==
    IF o >= 8 THEN [disp |-> d, VF |-> VF, panic |-> FALSE, pixel |-> px + 7, index |-> 0 - 1]
    ELSE LET w == writePixel(d, px + o, Shr(row, 7 - o) % 2)
         IN  IF w.panic
             THEN [disp |-> d, VF |-> VF, panic |-> TRUE, pixel |-> px + o, index |-> w.index]
             ELSE LET rest == DrawRow(w.disp, px, row, o + 1, IF w.ret = 1 THEN 1 ELSE VF)
                  IN  [rest EXCEPT !.index = Max(w.index, rest.index)]

\* for s in 0..n { row s; px += 64; if px >= TOTAL_PIXELS { break } }
RECURSIVE DrawRows(_, _, _, _, _, _)
DrawRows(d, px, sprite, s, n, VF) ==
    IF s >= n THEN [disp |-> d, VF |-> VF, panic |-> FALSE, pixel |-> 0 - 1, index |-> 0 - 1]
    ELSE LET r == DrawRow(d, px, sprite[s], 0, VF)
         IN  IF r.panic \/ px + 64 >= TOTAL_PIXELS THEN r
             ELSE LET rest == DrawRows(r.disp, px + 64, sprite, s + 1, n, r.VF)
                  IN  [rest EXCEPT !.pixel = Max(r.pixel, rest.pixel),
                                   !.index = Max(r.index, rest.index)]

DrawSprite(e, x, y, n, oc) ==
    LET rd == ReadSprite(e, 0, n, oc, [i \in 0 .. 14 |-> 0])
        Vx == e.reg[x]
        Vy == e.reg[y]
        px == Vx + (Vy * 32)
        dr == DrawRows(e.disp, px, rd.sprite, 0, n, 0)
        acc == [mem |-> rd.mem, pixel |-> dr.pixel, disp |-> dr.index]
    IN  IF rd.panic THEN Panic(e, [NoAccess EXCEPT !.mem = rd.mem])
        ELSE IF dr.panic THEN Panic(e, acc)
        ELSE DoneAt([e EXCEPT !.disp = dr.disp, !.reg[15] = dr.VF], acc)

(***************************************************************************)
(* execute, by opcode. oc: the build checks integer overflow; ks: the keys *)
(* held; rnd: the byte rand() returns. The timer instructions Fx07, Fx15   *)
(* and Fx18 take a mutex and are the actions EngineLock, EngineAccess and  *)
(* EngineUnlock below.                                                     *)
(***************************************************************************)
Skip(e, cond) == Done(IF cond THEN [e EXCEPT !.pc = e.pc + 2] ELSE e)

\* a u8 or u16 result that may overflow: panic in a checking build, else wrap
Wrapping(e, overflow, oc, wrapped) == IF overflow /\ oc THEN Panic(e, NoAccess) ELSE Done(wrapped)

\* mutant: any other 0nnn runs the routine at nnn
Exec0SysCall(e, ins) ==
    IF ins.op1 = Some(224)
    THEN Done([e EXCEPT !.disp = [i \in 0 .. DISP_SIZE - 1 |-> 0]])
    ELSE IF ins.op1 = Some(238)
    THEN LET p == StackPop(e.stack)
         IN  IF p.ret # None
             THEN Done([e EXCEPT !.stack = p.stack, !.pc = Unwrap(p.ret)])
             ELSE Done([e EXCEPT !.stack = p.stack])
    ELSE Done([e EXCEPT !.pc = Unwrap(ins.op1)])

Exec0(e, ins) ==
    IF ins.op1 = Some(224)
    THEN Done([e EXCEPT !.disp = [i \in 0 .. DISP_SIZE - 1 |-> 0]])
    ELSE IF ins.op1 = Some(238)
    THEN LET p == StackPop(e.stack)
         IN  IF p.ret # None
             THEN Done([e EXCEPT !.stack = p.stack, !.pc = Unwrap(p.ret)])
             ELSE Done([e EXCEPT !.stack = p.stack])
    ELSE Done(e)

Exec1(e, ins) == IF ins.op1 # None THEN Done([e EXCEPT !.pc = Unwrap(ins.op1)]) ELSE Done(e)

\* mutant: pc set before the push, so the target is pushed
Exec2TargetPushed(e, ins) ==
    IF ins.op1 # None
    THEN Done([e EXCEPT !.stack = StackPush(e.stack, Unwrap(ins.op1)), !.pc = Unwrap(ins.op1)])
    ELSE Done(e)

Exec2(e, ins) ==
    IF ins.op1 # None
    THEN Done([e EXCEPT !.stack = StackPush(e.stack, e.pc), !.pc = Unwrap(ins.op1)])
    ELSE Done(e)

Exec3(e, ins) ==
    IF ins.op1 # None /\ ins.op2 # None
    THEN Skip(e, e.reg[Unwrap(ins.op1)] = Unwrap(ins.op2) % U8)
    ELSE Done(e)

Exec4(e, ins) ==
    IF ins.op1 # None /\ ins.op2 # None
    THEN Skip(e, e.reg[Unwrap(ins.op1)] # Unwrap(ins.op2) % U8)
    ELSE Done(e)

Exec5(e, ins) ==
    IF ins.op1 # None /\ ins.op2 # None
    THEN Skip(e, e.reg[Unwrap(ins.op1)] = e.reg[Unwrap(ins.op2)])
    ELSE Done(e)

Exec6(e, ins) ==
    IF ins.op1 # None /\ ins.op2 # None
    THEN Done([e EXCEPT !.reg[Unwrap(ins.op1)] = Unwrap(ins.op2) % U8])
    ELSE Done(e)

Exec7(e, ins, oc) ==
    IF ins.op1 # None /\ ins.op2 # None
    THEN LET x == Unwrap(ins.op1)
             sum == e.reg[x] + (Unwrap(ins.op2) % U8)
         IN  Wrapping(e, sum >= U8, oc, [e EXCEPT !.reg[x] = sum % U8])
    ELSE Done(e)

\* 8xy4: sum > 0xff sets reg[0xf] = 1, then reg[x] = 0xff; else reg[x] = sum
Exec8Add(e, x, y) ==
    LET sum == e.reg[x] + e.reg[y]
    IN  IF sum > 255
        THEN Done([e EXCEPT !.reg = [[e.reg EXCEPT ![15] = 1] EXCEPT ![x] = 255]])
        ELSE Done([e EXCEPT !.reg[x] = sum % U8])

\* 8xy5: reg[0xf] = (reg[x] > reg[y]), then reg[x] -= reg[y]
Exec8Sub(e, x, y, oc) ==
    LET r1 == [e.reg EXCEPT ![15] = IF e.reg[x] > e.reg[y] THEN 1 ELSE 0]
        diff == r1[x] - r1[y]
    IN  Wrapping(e, diff < 0, oc, [e EXCEPT !.reg = [r1 EXCEPT ![x] = diff % U8]])

\* 8xy6: reg[0xf] = reg[x] & 1, then reg[x] /= 2
Exec8Shr(e, x) ==
    LET r1 == [e.reg EXCEPT ![15] = IF BitAnd(e.reg[x], 1) = 1 THEN 1 ELSE 0]
    IN  Done([e EXCEPT !.reg = [r1 EXCEPT ![x] = r1[x] \div 2]])

\* 8xy7: reg[0xf] = (reg[x] < reg[y]), then reg[x] = reg[y] - reg[x]
Exec8SubN(e, x, y, oc) ==
    LET r1 == [e.reg EXCEPT ![15] = IF e.reg[x] < e.reg[y] THEN 1 ELSE 0]
        diff == r1[y] - r1[x]
    IN  Wrapping(e, diff < 0, oc, [e EXCEPT !.reg = [r1 EXCEPT ![x] = diff % U8]])

\* 8xyE: reg[0xf] = (reg[x] >> 7) & 1, then reg[x] *= 2
Exec8Shl(e, x, oc) ==
    LET r1 == [e.reg EXCEPT ![15] = IF BitAnd(Shr(e.reg[x], 7), 1) = 1 THEN 1 ELSE 0]
        prod == r1[x] * 2
    IN  Wrapping(e, prod >= U8, oc, [e EXCEPT !.reg = [r1 EXCEPT ![x] = prod % U8]])

Exec8(e, ins, oc) ==
    IF ins.op1 = None \/ ins.op2 = None \/ ins.op3 = None THEN Done(e)
    ELSE LET x == Unwrap(ins.op1)
             y == Unwrap(ins.op2)
             k == Unwrap(ins.op3)
         IN  CASE k = 0 -> Done([e EXCEPT !.reg[x] = e.reg[y]])
               [] k = 1 -> Done([e EXCEPT !.reg[x] = BitOr(e.reg[x], e.reg[y])])
               [] k = 2 -> Done([e EXCEPT !.reg[x] = BitAnd(e.reg[x], e.reg[y])])
               [] k = 3 -> Done([e EXCEPT !.reg[x] = BitXor(e.reg[x], e.reg[y])])
               [] k = 4 -> Exec8Add(e, x, y)
               [] k = 5 -> Exec8Sub(e, x, y, oc)
               [] k = 6 -> Exec8Shr(e, x)
               [] k = 7 -> Exec8SubN(e, x, y, oc)
               [] k = 14 -> Exec8Shl(e, x, oc)
               [] OTHER -> Done(e)

Exec9(e, ins) ==
    IF ins.op1 # None /\ ins.op2 # None
    THEN Skip(e, e.reg[Unwrap(ins.op1)] # e.reg[Unwrap(ins.op2)])
    ELSE Done(e)

ExecA(e, ins) == IF ins.op1 # None THEN Done([e EXCEPT !.idx = Unwrap(ins.op1)]) ELSE Done(e)

ExecB(e, ins) ==
    IF ins.op1 # None THEN Done([e EXCEPT !.pc = e.reg[0] + Unwrap(ins.op1)]) ELSE Done(e)

ExecC(e, ins, rnd) ==
    IF ins.op1 # None /\ ins.op2 # None
    THEN Done([e EXCEPT !.reg[Unwrap(ins.op1)] = BitAnd(Unwrap(ins.op2) % U8, rnd % U8)])
    ELSE Done(e)

ExecD(e, ins, oc) ==
    IF ins.op1 # None /\ ins.op2 # None /\ ins.op3 # None
    THEN DrawSprite(e, Unwrap(ins.op1), Unwrap(ins.op2), Unwrap(ins.op3) % U8, oc)
    ELSE Done(e)

\* Ex9E, ExA1: REAL_KEYCODES[reg[x]] is an index into a table of 16
ExecE(e, ins, ks) ==
    IF ins.op1 # None /\ ins.op2 \in {Some(158), Some(161)}
    THEN LET k == e.reg[Unwrap(ins.op1)]
         IN  IF k >= NUM_KEYS THEN Panic(e, NoAccess)
             ELSE IF ins.op2 = Some(158) THEN Skip(e, k \in ks)
             ELSE Skip(e, k \notin ks)
    ELSE Done(e)

\* mutant: the poll rewinds pc whether or not a key is held
ExecWaitKeyRewinds(e, x, ks) == Done([e EXCEPT !.pc = e.pc - 2])

\* Fx0A: the first key held, in table order, or pc -= 2
ExecWaitKey(e, x, ks) ==
    IF ks \cap (0 .. NUM_KEYS - 1) # {}
    THEN LET i == CHOOSE k \in ks \cap (0 .. NUM_KEYS - 1) :
                      \A j \in ks \cap (0 .. NUM_KEYS - 1) : k <= j
         IN  Done([e EXCEPT !.reg[x] = i])
    ELSE Done([e EXCEPT !.pc = e.pc - 2])

\* Fx33: mem[idx], mem[idx + 1], mem[idx + 2] = the decimal digits of reg[x]
ExecBcd(e, x) ==
    LET acc == [NoAccess EXCEPT !.mem = MemReach(e.idx, e.idx + 2)]
    IN  IF e.idx + 2 >= MEM_SIZE THEN Panic(e, acc)
        ELSE DoneAt([e EXCEPT !.mem = [[[e.mem EXCEPT ![e.idx] = (e.reg[x] \div 100) % 10]
                                                EXCEPT ![e.idx + 1] = (e.reg[x] \div 10) % 10]
                                                EXCEPT ![e.idx + 2] = e.reg[x] % 10]], acc)

\* Fx55: for i in 0..x { mem[idx + i] = reg[i] }
ExecStore(e, x) ==
    IF x = 0 THEN Done(e)
    ELSE LET acc == [NoAccess EXCEPT !.mem = MemReach(e.idx, e.idx + x - 1)]
         IN  IF e.idx + x - 1 >= MEM_SIZE THEN Panic(e, acc)
             ELSE DoneAt([e EXCEPT !.mem = [a \in 0 .. MEM_SIZE - 1 |->
                              IF a >= e.idx /\ a < e.idx + x THEN e.reg[a - e.idx] ELSE e.mem[a]]],
                         acc)

\* Fx65: for i in 0..x { reg[i] = mem[idx + i] }
ExecLoad(e, x) ==
    IF x = 0 THEN Done(e)
    ELSE LET acc == [NoAccess EXCEPT !.mem = MemReach(e.idx, e.idx + x - 1)]
         IN  IF e.idx + x - 1 >= MEM_SIZE THEN Panic(e, acc)
             ELSE DoneAt([e EXCEPT !.reg = [i \in 0 .. 15 |->
                              IF i < x THEN e.mem[e.idx + i] ELSE e.reg[i]]],
                         acc)

IsTimerOp(ins) == ins.opcode = 15 /\ ins.op1 # None /\ ins.op2 \in {Some(7), Some(21), Some(24)}

ExecF(e, ins, ks, oc) ==
    IF ins.op1 = None \/ ins.op2 = None THEN Done(e)
    ELSE LET x == Unwrap(ins.op1)
             k == Unwrap(ins.op2)
         IN  CASE k = 10 -> ExecWaitKey(e, x, ks)
               [] k = 30 -> Wrapping(e, e.idx + e.reg[x] >= U16, oc,
                                     [e EXCEPT !.idx = (e.idx + e.reg[x]) % U16])
               [] k = 41 -> Wrapping(e, e.reg[x] * 5 >= U8, oc,
                                     [e EXCEPT !.idx = (e.reg[x] * 5) % U8])
               [] k = 51 -> ExecBcd(e, x)
               [] k = 85 -> ExecStore(e, x)
               [] k = 101 -> ExecLoad(e, x)
               [] OTHER -> Done(e)

execute(e, ins, ks, rnd, oc) ==
    CASE ins.opcode = 0 -> Exec0(e, ins)
      [] ins.opcode = 1 -> Exec1(e, ins)
      [] ins.opcode = 2 -> Exec2(e, ins)
      [] ins.opcode = 3 -> Exec3(e, ins)
      [] ins.opcode = 4 -> Exec4(e, ins)
      [] ins.opcode = 5 -> Exec5(e, ins)
      [] ins.opcode = 6 -> Exec6(e, ins)
      [] ins.opcode = 7 -> Exec7(e, ins, oc)
      [] ins.opcode = 8 -> Exec8(e, ins, oc)
      [] ins.opcode = 9 -> Exec9(e, ins)
      [] ins.opcode = 10 -> ExecA(e, ins)
      [] ins.opcode = 11 -> ExecB(e, ins)
      [] ins.opcode = 12 -> ExecC(e, ins, rnd)
      [] ins.opcode = 13 -> ExecD(e, ins, oc)
      [] ins.opcode = 14 -> ExecE(e, ins, ks)
      [] ins.opcode = 15 -> ExecF(e, ins, ks, oc)
      [] OTHER -> Done(e)

(***************************************************************************)
(* Bounds of the model.                                                    *)
(***************************************************************************)
\* fetches one run makes
MaxCycles == 7
\* pushes one run of the stack's unit specification makes
MaxPush == 3

(***************************************************************************)
(* The mutexes and the timers.                                             *)
(***************************************************************************)
\* mutant: lock() that does not wait for the holder
MutexNoWait(lock) == TRUE

\* lock() returns once nobody holds the mutex
MutexAvailable(lock) == lock = "free"

\* mutant: a guard that is never dropped
MutexKept(lock) == lock

\* the guard goes out of scope at the end of its block
MutexRelease(lock) == "free"

\* mutant: if *d >= 0
TimerRunningAtZero(v) == v >= 0

\* if *d > 0
TimerRunning(v) == v > 0

\* *d -= 1, on a u8
TimerDecrement(v) == (v - 1) % U8

\* history: one more tick since the engine set the timer to `set`
Ticked(ticks, set) == Min(ticks + 1, set)

(***************************************************************************)
(* The engine: main's loop, one fetch / decode / execute cycle at a time.  *)
(***************************************************************************)
machine == <<emu, instr, at, access, calls, cycles>>
timers == <<delay, sound, dSet, dTicks, sSet, sTicks>>
locks == <<delayLock, soundLock>>
ticker == <<tpc, td>>
fixed == <<keys, overflow_checks, probe>>

IsCall(ins) == ins.opcode = 2 /\ ins.op1 # None
IsReturn(ins) == ins.opcode = 0 /\ ins.op1 = Some(238)

\* let raw = fetch(&mut emu); let instr = decode(raw);
Fetch ==
    /\ eng = "fetch"
    /\ cycles < MaxCycles
    /\ LET f == fetch(emu)
       IN  /\ eng' = IF f.out.panic THEN "panicked" ELSE "execute"
           /\ emu' = f.out.emu
           /\ access' = f.out.access
           /\ instr' = IF f.out.panic THEN instr ELSE decode(f.raw)
    /\ at' = emu.pc
    /\ cycles' = cycles + 1
    /\ UNCHANGED <<calls, timers, locks, ticker, fixed>>

\* execute(&mut emu, instr); emu.draw(); next_frame().await;
Execute ==
    /\ eng = "execute"
    /\ ~IsTimerOp(instr)
    /\ \E rnd \in (IF instr.opcode = 12 THEN 0 .. 255 ELSE {0}) :
          LET o == execute(emu, instr, keys, rnd, overflow_checks)
          IN  /\ eng' = IF o.panic THEN "panicked" ELSE "fetch"
              /\ emu' = o.emu
              /\ access' = o.access
    /\ calls' = IF IsCall(instr) THEN Append(calls, [site |-> at, stack |-> emu.stack])
                ELSE IF IsReturn(instr) /\ calls # << >> THEN SubSeq(calls, 1, Len(calls) - 1)
                ELSE calls
    /\ UNCHANGED <<instr, at, cycles, timers, locks, ticker, fixed>>

UsesDelay(ins) == ins.op2 \in {Some(7), Some(21)}

\* emu.delay.lock().unwrap() or emu.sound.lock().unwrap()
EngineLock ==
    /\ eng = "execute"
    /\ IsTimerOp(instr)
    /\ IF UsesDelay(instr)
       THEN MutexAvailable(delayLock) /\ delayLock' = "engine" /\ UNCHANGED soundLock
       ELSE MutexAvailable(soundLock) /\ soundLock' = "engine" /\ UNCHANGED delayLock
    /\ eng' = "locked"
    /\ UNCHANGED <<machine, timers, ticker, fixed>>

\* emu.reg[x] = *d (Fx07), *d = emu.reg[x] (Fx15), *s = emu.reg[x] (Fx18)
EngineAccess ==
    /\ eng = "locked"
    /\ LET x == Unwrap(instr.op1)
       IN  CASE instr.op2 = Some(7) ->
                   /\ emu' = [emu EXCEPT !.reg[x] = delay]
                   /\ UNCHANGED timers
             [] instr.op2 = Some(21) ->
                   /\ delay' = emu.reg[x]
                   /\ dSet' = emu.reg[x]
                   /\ dTicks' = 0
                   /\ UNCHANGED <<emu, sound, sSet, sTicks>>
             [] OTHER ->
                   /\ sound' = emu.reg[x]
                   /\ sSet' = emu.reg[x]
                   /\ sTicks' = 0
                   /\ UNCHANGED <<emu, delay, dSet, dTicks>>
    /\ eng' = "unlock"
    /\ access' = NoAccess
    /\ UNCHANGED <<instr, at, calls, cycles, locks, ticker, fixed>>

\* the end of the block that holds the guard
EngineUnlock ==
    /\ eng = "unlock"
    /\ IF UsesDelay(instr)
       THEN delayLock' = MutexRelease(delayLock) /\ UNCHANGED soundLock
       ELSE soundLock' = MutexRelease(soundLock) /\ UNCHANGED delayLock
    /\ eng' = "fetch"
    /\ UNCHANGED <<machine, timers, ticker, fixed>>

(***************************************************************************)
(* The timer thread: tick's loop. It ends with the process, when the main  *)
(* thread panics.                                                          *)
(***************************************************************************)
Running == eng # "panicked"

\* let mut d = delay.lock().unwrap();
TickLockDelay ==
    /\ Running /\ tpc = "lock_delay"
    /\ MutexAvailable(delayLock)
    /\ delayLock' = "tick"
    /\ tpc' = "test_delay"
    /\ UNCHANGED <<eng, machine, timers, soundLock, td, fixed>>

\* if *d > 0
TickTestDelay ==
    /\ Running /\ tpc = "test_delay"
    /\ td' = delay
    /\ IF TimerRunning(delay)
       THEN tpc' = "dec_delay" /\ UNCHANGED dTicks
       ELSE tpc' = "unlock_delay" /\ dTicks' = Ticked(dTicks, dSet)
    /\ UNCHANGED <<eng, machine, delay, sound, dSet, sSet, sTicks, locks, fixed>>

\* *d -= 1;
TickDecDelay ==
    /\ Running /\ tpc = "dec_delay"
    /\ delay' = TimerDecrement(delay)
    /\ dTicks' = Ticked(dTicks, dSet)
    /\ tpc' = "unlock_delay"
    /\ UNCHANGED <<eng, machine, sound, dSet, sSet, sTicks, locks, td, fixed>>

TickUnlockDelay ==
    /\ Running /\ tpc = "unlock_delay"
    /\ delayLock' = MutexRelease(delayLock)
    /\ tpc' = "lock_sound"
    /\ UNCHANGED <<eng, machine, timers, soundLock, td, fixed>>

\* let mut s = sound.lock().unwrap();
TickLockSound ==
    /\ Running /\ tpc = "lock_sound"
    /\ MutexAvailable(soundLock)
    /\ soundLock' = "tick"
    /\ tpc' = "test_sound"
    /\ UNCHANGED <<eng, machine, timers, delayLock, td, fixed>>

\* if *s > 0
TickTestSound ==
    /\ Running /\ tpc = "test_sound"
    /\ td' = sound
    /\ IF TimerRunning(sound)
       THEN tpc' = "dec_sound" /\ UNCHANGED sTicks
       ELSE tpc' = "unlock_sound" /\ sTicks' = Ticked(sTicks, sSet)
    /\ UNCHANGED <<eng, machine, delay, sound, dSet, dTicks, sSet, locks, fixed>>

\* *s -= 1;
TickDecSound ==
    /\ Running /\ tpc = "dec_sound"
    /\ sound' = TimerDecrement(sound)
    /\ sTicks' = Ticked(sTicks, sSet)
    /\ tpc' = "unlock_sound"
    /\ UNCHANGED <<eng, machine, delay, dSet, dTicks, sSet, locks, td, fixed>>

TickUnlockSound ==
    /\ Running /\ tpc = "unlock_sound"
    /\ soundLock' = MutexRelease(soundLock)
    /\ tpc' = "sleep"
    /\ UNCHANGED <<eng, machine, timers, delayLock, td, fixed>>

\* thread::sleep(period - elapsed), then the next iteration
TickSleep ==
    /\ Running /\ tpc = "sleep"
    /\ tpc' = "lock_delay"
    /\ UNCHANGED <<eng, machine, timers, locks, td, fixed>>

Engine == Fetch \/ Execute \/ EngineLock \/ EngineAccess \/ EngineUnlock

Tick ==
    \/ TickLockDelay \/ TickTestDelay \/ TickDecDelay \/ TickUnlockDelay
    \/ TickLockSound \/ TickTestSound \/ TickDecSound \/ TickUnlockSound
    \/ TickSleep

Next == Engine \/ Tick

(***************************************************************************)
(* Program images, and the state main's loop starts in.                    *)
(***************************************************************************)
RECURSIVE Bytes(_)
Bytes(words) ==
    IF words = << >> THEN << >>
    ELSE <<Head(words) \div 256, Head(words) % 256>> \o Bytes(Tail(words))

NoProbe == [n |-> 0]

Boot(roms) ==
    /\ \E rom \in roms : emu = [EmulatorInit EXCEPT !.mem = loadROM(init_font, Bytes(rom))]
    /\ delay = 0 /\ sound = 0
    /\ delayLock = "free" /\ soundLock = "free"
    /\ eng = "fetch"
    /\ instr = NoInstr
    /\ tpc = "lock_delay"
    /\ td = 0
    /\ keys = {}
    /\ overflow_checks \in BOOLEAN
    /\ access = NoAccess
    /\ at = PROGRAM_START
    /\ calls = << >>
    /\ cycles = 0
    /\ dSet = 0 /\ dTicks = 0 /\ sSet = 0 /\ sTicks = 0
    /\ probe = NoProbe

\* control flow: call 0x202, call 0x204, return, jump 0x200, jump 0xFFF,
\* delay timer <- V0
FlowWords == {8706, 8708, 238, 4608, 8191, 61461}
FlowRoms == {<<a, b, c>> : a \in FlowWords, b \in FlowWords, c \in FlowWords}


\* a program that starts both timers: V0 <- 2, delay <- V0, sound <- V0
TimerRom == <<24578, 61461, 61464>>

Init == Boot(FlowRoms \cup {TimerRom})
Spec == Init /\ [][Next]_vars

\* the timers: V0 <- 2, delay <- V0, sound <- V0, V1 <- delay, delay <- V1,
\* jump 0x200; and V0 <- 200, delay <- V0, jump 0x204 (to itself)
TimerWords == {24578, 61461, 61464, 61703, 61717, 4608}
TimerRoms ==
    {<<a, b, c>> : a \in TimerWords, b \in TimerWords, c \in TimerWords}
        \cup {<<24776, 61461, 4612>>}

InitTimer == Boot(TimerRoms)
SpecTimer == InitTimer /\ [][Next]_vars

(***************************************************************************)
(* C1: each timer holds the value the engine last set it to less the ticks *)
(* since, and 0 once that many ticks have passed: a tick takes exactly 1   *)
(* from a timer above 0 and leaves a timer at 0 alone, so a timer never    *)
(* goes below 0 (never wraps to 255); a timer set to 200 and ticked 60     *)
(* times holds 140.                                                        *)
(***************************************************************************)
C1_TimerClamp ==
    /\ delay \in 0 .. 255 /\ sound \in 0 .. 255
    /\ delay = IF dTicks >= dSet THEN 0 ELSE dSet - dTicks
    /\ sound = IF sTicks >= sSet THEN 0 ELSE sSet - sTicks
    /\ (dSet = 200 /\ dTicks = 60) => delay = 140

C1_Witness == dSet = 200 /\ dTicks = 60 /\ delay = 140 /\ tpc = "unlock_delay"

\* where each thread is inside an access to a timer
EngineInDelay == eng \in {"locked", "unlock"} /\ UsesDelay(instr)
EngineInSound == eng \in {"locked", "unlock"} /\ ~UsesDelay(instr)
TickInDelay == tpc \in {"test_delay", "dec_delay", "unlock_delay"}
TickInSound == tpc \in {"test_sound", "dec_sound", "unlock_sound"}


(***************************************************************************)
(* C2: the engine and the timer thread are never both inside an access to  *)
(* the same timer; each is inside one only while it holds that timer's     *)
(* mutex; and the value the timer thread tested is still the timer's value *)
(* when it decrements it (no engine write came in between).                *)
(***************************************************************************)
C2_TimerMutex ==
    /\ ~(EngineInDelay /\ TickInDelay)
    /\ ~(EngineInSound /\ TickInSound)
    /\ EngineInDelay => delayLock = "engine"
    /\ EngineInSound => soundLock = "engine"
    /\ TickInDelay => delayLock = "tick"
    /\ TickInSound => soundLock = "tick"
    /\ tpc = "dec_delay" => td = delay
    /\ tpc = "dec_sound" => td = sound

\* the engine is writing the delay timer while the timer thread waits for it
C2_Witness ==
    /\ eng = "locked" /\ instr.op2 = Some(21)
    /\ tpc = "lock_delay" /\ delay > 0

(***************************************************************************)
(* The scheduling the liveness claims rest on: each thread keeps taking    *)
(* steps (weak fairness), and a thread blocked in lock() gets the mutex if *)
(* it is free again and again (strong fairness): the holder releases it    *)
(* and does not take it again before it has slept or fetched.              *)
(***************************************************************************)
Fairness ==
    /\ WF_vars(Fetch) /\ WF_vars(Execute)
    /\ SF_vars(EngineLock) /\ WF_vars(EngineAccess) /\ WF_vars(EngineUnlock)
    /\ SF_vars(TickLockDelay) /\ WF_vars(TickTestDelay) /\ WF_vars(TickDecDelay)
    /\ WF_vars(TickUnlockDelay)
    /\ SF_vars(TickLockSound) /\ WF_vars(TickTestSound) /\ WF_vars(TickDecSound)
    /\ WF_vars(TickUnlockSound) /\ WF_vars(TickSleep)

\* V0 <- 2, delay <- V0, sound <- V0, V0 <- delay, wait for a key into V0
LiveWords == {24578, 61461, 61464, 61447, 61450}
LiveRoms == {<<a, b, c>> : a \in LiveWords, b \in LiveWords, c \in LiveWords}

InitLive == Boot(LiveRoms)
SpecLive == InitLive /\ [][Next]_vars /\ Fairness

IsWaitKey(ins) == ins.opcode = 15 /\ ins.op1 # None /\ ins.op2 = Some(10)

(***************************************************************************)
(* C3: neither thread ever holds both timer mutexes; under fair scheduling *)
(* every execute step, of a timer instruction too, comes back to the host  *)
(* loop, and every iteration of the timer thread reaches its sleep (or the *)
(* process has ended); a wait-for-keypress cycle with no key held puts pc  *)
(* back on the instruction and returns to the loop, and every other of     *)
(* these instructions leaves pc after the instruction.                     *)
(***************************************************************************)
C3_NoBlocking ==
    /\ [](~(delayLock = "engine" /\ soundLock = "engine"))
    /\ [](~(delayLock = "tick" /\ soundLock = "tick"))
    /\ (eng = "execute") ~> (eng \in {"fetch", "panicked"})
    /\ (tpc = "lock_delay") ~> (tpc = "sleep" \/ ~Running)
    /\ [][(eng = "execute" /\ eng' # "execute" /\ IsWaitKey(instr) /\ keys = {})
              => (eng' = "fetch" /\ emu'.pc = at)]_vars
    /\ [][(eng \in {"execute", "unlock"} /\ eng' = "fetch" /\ ~IsWaitKey(instr))
              => emu'.pc = at + 2]_vars

\* the engine waits in lock() for the delay mutex, which the timer thread
\* holds with a decrement to make
C3_Witness ==
    /\ eng = "execute" /\ IsTimerOp(instr) /\ UsesDelay(instr)
    /\ delayLock = "tick" /\ tpc = "dec_delay"

(***************************************************************************)
(* The stack on its own: pushes, then pops.                                *)
(***************************************************************************)
\* pops tried beyond the pushes made
ExtraPops == 2

PushValues == {514, 768, 4095}

Idle ==
    /\ delay = 0 /\ sound = 0
    /\ delayLock = "free" /\ soundLock = "free"
    /\ eng = "fetch"
    /\ instr = NoInstr
    /\ tpc = "lock_delay"
    /\ td = 0
    /\ keys = {}
    /\ overflow_checks = FALSE
    /\ access = NoAccess
    /\ at = PROGRAM_START
    /\ calls = << >>
    /\ cycles = 0
    /\ dSet = 0 /\ dTicks = 0 /\ sSet = 0 /\ sTicks = 0

rest == <<delay, sound, delayLock, soundLock, eng, instr, tpc, td, keys,
          overflow_checks, access, at, calls, cycles, dSet, dTicks, sSet, sTicks>>

InitStack ==
    /\ Idle
    /\ emu = EmulatorInit
    /\ probe = [pushed |-> << >>, popped |-> << >>]

\* emu.stack.push(v)
Push ==
    /\ probe.popped = << >>
    /\ Len(probe.pushed) < MaxPush
    /\ \E v \in PushValues :
          /\ emu' = [emu EXCEPT !.stack = StackPush(emu.stack, v)]
          /\ probe' = [probe EXCEPT !.pushed = Append(@, v)]
    /\ UNCHANGED rest

\* emu.stack.pop()
Pop ==
    /\ Len(probe.popped) < Len(probe.pushed) + ExtraPops
    /\ LET p == StackPop(emu.stack)
       IN  /\ emu' = [emu EXCEPT !.stack = p.stack]
           /\ probe' = [probe EXCEPT !.popped = Append(@, p.ret)]
    /\ UNCHANGED rest

NextStack == Push \/ Pop
SpecStack == InitStack /\ [][NextStack]_vars

(***************************************************************************)
(* C5: after pushes p1..pn, the k-th pop returns p(n-k+1) for k <= n, the  *)
(* stack is empty after the n-th, and every pop after that returns None    *)
(* and leaves the stack empty.                                             *)
(***************************************************************************)
C5_StackLifo ==
    LET n == Len(probe.pushed)
    IN  /\ \A k \in 1 .. Len(probe.popped) :
              probe.popped[k] = IF k <= n THEN Some(probe.pushed[n - k + 1]) ELSE None
        /\ Len(probe.popped) >= n => emu.stack = StackNew
        /\ Len(probe.popped) < n =>
              StackPeak(emu.stack) = Some(probe.pushed[n - Len(probe.popped)])

C5_Witness ==
    /\ probe.pushed = <<514, 768, 4095>>
    /\ probe.popped = <<Some(4095), Some(768), Some(514), None, None>>

(***************************************************************************)
(* The framebuffer on its own: writePixel(i, b), then the same again.      *)
(***************************************************************************)
PixelDisplays ==
    { [i \in 0 .. DISP_SIZE - 1 |-> 0],
      [i \in 0 .. DISP_SIZE - 1 |-> 255],
      [i \in 0 .. DISP_SIZE - 1 |-> (i * 37 + 5) % 256] }

InitPixel ==
    /\ Idle
    /\ \E d \in PixelDisplays :
          /\ emu = [EmulatorInit EXCEPT !.disp = d]
          /\ probe = [n |-> 0, pixel |-> 0, value |-> 0, before |-> 0, ret |-> 0, orig |-> d]

\* emu.writePixel(i, b)
Toggle ==
    /\ probe.n < 2
    /\ \E i \in 0 .. TOTAL_PIXELS - 1, b \in {0, 1} :
          /\ probe.n = 0 \/ (i = probe.pixel /\ b = probe.value)
          /\ LET w == writePixel(emu.disp, i, b)
             IN  /\ ~w.panic
                 /\ emu' = [emu EXCEPT !.disp = w.disp]
                 /\ probe' = [probe EXCEPT !.n = @ + 1, !.pixel = i, !.value = b,
                                           !.before = readPixel(emu.disp, i),
                                           !.ret = w.ret]
    /\ UNCHANGED rest

NextPixel == Toggle
SpecPixel == InitPixel /\ [][NextPixel]_vars

(***************************************************************************)
(* C9: writePixel returns 1 exactly when the pixel was 1 before and is 0   *)
(* after an XOR with a 1 bit, and 0 otherwise.                             *)
(***************************************************************************)
C9_ToggleReportsErasure ==
    probe.n >= 1 =>
        probe.ret = IF probe.before = 1 /\ probe.value = 1
                       /\ readPixel(emu.disp, probe.pixel) = 0
                    THEN 1 ELSE 0

(***************************************************************************)
(* C10: writePixel(i, b) changes pixel i by b and no other pixel, and a    *)
(* second writePixel(i, b) restores the framebuffer.                       *)
(***************************************************************************)
C10_ToggleSelfInverse ==
    /\ probe.n = 1 =>
          /\ readPixel(emu.disp, probe.pixel) = (readPixel(probe.orig, probe.pixel) + probe.value) % 2
          /\ \A j \in 0 .. TOTAL_PIXELS - 1 :
                j # probe.pixel => readPixel(emu.disp, j) = readPixel(probe.orig, j)
    /\ probe.n = 2 => emu.disp = probe.orig

C10_Witness ==
    /\ probe.n = 2 /\ probe.value = 1 /\ probe.pixel = TOTAL_PIXELS - 1
    /\ probe.before = 0 /\ readPixel(probe.orig, probe.pixel) = 1
    /\ emu.disp = probe.orig

(***************************************************************************)
(* Draw-sprite programs: V0 <- vx, V1 <- vy, draw n rows of the glyph at   *)
(* idx = 0 at (V0, V1).                                                    *)
(***************************************************************************)
DrawRoms ==
    {<<24576 + vx, 24832 + vy, 53264 + n>> :
        vx \in {0, 60, 63, 255}, vy \in {0, 31, 62, 64, 255}, n \in {0, 1, 5, 15}}

InitDraw == Boot(DrawRoms \cup {TimerRom})
SpecDraw == InitDraw /\ [][Next]_vars

\* the word at the address the current instruction was fetched at
Word == getDWord(emu, at)
\* an execute step that returns to the loop
Executed == eng = "execute" /\ eng' = "fetch"

(***************************************************************************)
(* C4: a call 2nnn fetched at a leaves pc = nnn and a + 2 on top of the    *)
(* stack it found; the return that matches a call (calls and returns in    *)
(* between balanced) leaves pc = a + 2 and the stack as it was before the  *)
(* call.                                                                   *)
(***************************************************************************)
C4_CallReturn ==
    [][/\ (Executed /\ Word \div 4096 = 2) =>
              /\ emu'.pc = Word % 4096
              /\ StackPeak(emu'.stack) = Some(at + 2)
              /\ StackPop(emu'.stack).stack = emu.stack
       /\ (Executed /\ Word = 238 /\ calls # << >>) =>
              /\ emu'.pc = calls[Len(calls)].site + 2
              /\ emu'.stack = calls[Len(calls)].stack
      ]_vars

\* call 0x202 at 0x200, call 0x204 at 0x202, return at 0x204 twice: the
\* second return matches the first call
C4_Witness ==
    /\ eng = "fetch" /\ IsReturn(instr) /\ cycles = 4
    /\ getDWord(emu, PROGRAM_START) = 8706
    /\ calls = << >> /\ emu.stack = StackNew
    /\ emu.pc = PROGRAM_START + 2

(***************************************************************************)
(* C6: a return 00EE fetched at a with the call stack empty changes        *)
(* nothing: pc stays a + 2, the stack stays empty, registers, index        *)
(* register, memory, framebuffer and timers are as they were, and the      *)
(* engine goes on to fetch at a + 2.                                       *)
(***************************************************************************)
C6_ReturnOnEmpty ==
    [][(eng = "execute" /\ eng' # "execute" /\ Word = 238 /\ emu.stack = StackNew) =>
          /\ eng' = "fetch"
          /\ emu.pc = at + 2
          /\ emu' = emu
          /\ delay' = delay /\ sound' = sound
      ]_vars

\* a return was the first instruction, and the next one has been fetched
C6_Witness ==
    /\ getDWord(emu, PROGRAM_START) = 238
    /\ cycles = 2 /\ eng = "execute" /\ at = PROGRAM_START + 2
    /\ emu.stack = StackNew

(***************************************************************************)
(* C7: every index the engine uses into memory is below 4096.              *)
(***************************************************************************)
C7_AddressesInRange == access.mem < MEM_SIZE

(***************************************************************************)
(* C8: every pixel a draw-sprite toggles has a number in 0..2047, in a     *)
(* byte 0..255 of the framebuffer.                                         *)
(***************************************************************************)
C8_DrawInRange == access.pixel < TOTAL_PIXELS /\ access.disp < DISP_SIZE

(***************************************************************************)
(* C11: draw-sprite with Vx = x, Vy = y XORs bit c (0: most significant)   *)
(* of sprite row r into the pixel (y + r) * 64 + x + c, the index the      *)
(* renderer reads pixel (x, y) at, and changes no other pixel.             *)
(***************************************************************************)
C11_DrawLinearIndex ==
    [][(Executed /\ Word \div 4096 = 13) =>
          LET Vx == emu.reg[(Word \div 256) % 16]
              Vy == emu.reg[(Word \div 16) % 16]
              n == Word % 16
              bit(p) == IF \E r \in 0 .. n - 1, c \in 0 .. 7 :
                               /\ p = (Vy + r) * 64 + Vx + c
                               /\ Shr(emu.mem[emu.idx + r], 7 - c) % 2 = 1
                        THEN 1 ELSE 0
          IN  \A p \in 0 .. TOTAL_PIXELS - 1 :
                 readPixel(emu'.disp, p) = (readPixel(emu.disp, p) + bit(p)) % 2
      ]_vars

(***************************************************************************)
(* Register programs: V0 <- a, V1 <- b, VF <- f, then one instruction of   *)
(* the 8xyN group (x or y also 15) or an add immediate; and the program    *)
(* 60 05, 70 03.                                                           *)
(***************************************************************************)
\* 8014 8015 8016 8017 801E, 8F14 8F15 8F16 8F17 8F1E, 80F4 80F5 80F7,
\* 7003 7064 70FF 7F03
AluOps ==
    {32788, 32789, 32790, 32791, 32798, 36628, 36629, 36630, 36631, 36638,
     33012, 33013, 33015, 28675, 28772, 28927, 32515}
AluValues == {1, 5, 200, 255}
FlagValues == {0, 5}
AluRoms ==
    {<<24576 + a, 24832 + b, 28416 + f, op>> :
        a \in AluValues, b \in AluValues, f \in FlagValues, op \in AluOps}
        \cup {<<24581, 28675>>}

InitAlu == Boot(AluRoms \cup {TimerRom})
SpecAlu == InitAlu /\ [][Next]_vars

\* the fields of the word being executed, and the end of its execute step
\* (back to the loop, or a panic)
WordX == (Word \div 256) % 16
WordY == (Word \div 16) % 16
WordN == Word % 16
WordNN == Word % 256
Stepped == eng = "execute" /\ eng' # "execute"

(***************************************************************************)
(* C12: 8xy4 with x other than 15 leaves Vx = (Vx + Vy) mod 256 and        *)
(* register 15 = 1 when Vx + Vy exceeds 255 and 0 otherwise, whatever      *)
(* register 15 held before.                                                *)
(***************************************************************************)
C12_AddWithCarry ==
    [][(Stepped /\ Word \div 4096 = 8 /\ WordN = 4 /\ WordX # 15) =>
          LET sum == emu.reg[WordX] + emu.reg[WordY]
          IN  /\ eng' = "fetch"
              /\ emu'.reg[WordX] = sum % 256
              /\ emu'.reg[15] = IF sum > 255 THEN 1 ELSE 0
      ]_vars

(***************************************************************************)
(* C13: after 8xy4, 8xy5, 8xy7, 8xy6 or 8xyE register 15 holds the 0/1     *)
(* indicator computed from the operand values before the instruction       *)
(* (carry: Vx + Vy > 255; 8xy5: Vx > Vy; 8xy7: Vx < Vy; the bit shifted    *)
(* out), also when x is 15 or register 15 is a source operand.             *)
(***************************************************************************)
C13_FlagWrittenLast ==
    [][(Executed /\ Word \div 4096 = 8 /\ WordN \in {4, 5, 6, 7, 14}) =>
          LET Vx == emu.reg[WordX]
              Vy == emu.reg[WordY]
              flag == CASE WordN = 4 -> Vx + Vy > 255
                        [] WordN = 5 -> Vx > Vy
                        [] WordN = 6 -> Vx % 2 = 1
                        [] WordN = 7 -> Vx < Vy
                        [] WordN = 14 -> Vx \div 128 = 1
          IN  emu'.reg[15] = IF flag THEN 1 ELSE 0
      ]_vars

(***************************************************************************)
(* C14: 6xnn sets Vx = nn and 7xnn sets Vx = (Vx + nn) mod 256, wrapping   *)
(* around, and neither changes anything else; the program 60 05, 70 03 at  *)
(* 0x200 leaves register 0 = 8 and pc = 0x204.                             *)
(***************************************************************************)
C14_LoadAddImmediate ==
    [][/\ (Stepped /\ Word \div 4096 = 6) =>
              /\ eng' = "fetch"
              /\ emu' = [emu EXCEPT !.reg[WordX] = WordNN]
       /\ (Stepped /\ Word \div 4096 = 7) =>
              /\ eng' = "fetch"
              /\ emu' = [emu EXCEPT !.reg[WordX] = (emu.reg[WordX] + WordNN) % 256]
       /\ (Stepped /\ cycles = 2 /\ Word = 28675 /\ getDWord(emu, PROGRAM_START) = 24581) =>
              /\ emu'.reg[0] = 8
              /\ emu'.pc = PROGRAM_START + 4
      ]_vars

(***************************************************************************)
(* Skip programs: V0 <- a, V1 <- b, then a conditional skip.               *)
(***************************************************************************)
\* 3007 4007 5010 9010 5100 9100
SkipOps == {12295, 16391, 20496, 36880, 20736, 37120}
SkipValues == {0, 7, 255}
SkipRoms ==
    {<<24576 + a, 24832 + b, op>> : a \in SkipValues, b \in SkipValues, op \in SkipOps}

InitSkip == Boot(SkipRoms \cup {TimerRom})
SpecSkip == InitSkip /\ [][Next]_vars

(***************************************************************************)
(* C15: a conditional skip fetched at a (3xnn: Vx = nn, 4xnn: Vx # nn,     *)
(* 5xy0: Vx = Vy, 9xy0: Vx # Vy) leaves pc = a + 4 when its condition      *)
(* holds and pc = a + 2 when it does not, and changes nothing but pc.      *)
(***************************************************************************)
C15_ConditionalSkips ==
    [][(/\ Stepped
        /\ \/ Word \div 4096 \in {3, 4}
           \/ Word \div 4096 \in {5, 9} /\ WordN = 0) =>
          LET Vx == emu.reg[WordX]
              Vy == emu.reg[WordY]
              cond == CASE Word \div 4096 = 3 -> Vx = WordNN
                        [] Word \div 4096 = 4 -> Vx # WordNN
                        [] Word \div 4096 = 5 -> Vx = Vy
                        [] Word \div 4096 = 9 -> Vx # Vy
          IN  /\ eng' = "fetch"
              /\ emu' = [emu EXCEPT !.pc = IF cond THEN at + 4 ELSE at + 2]
              /\ delay' = delay /\ sound' = sound
      ]_vars

(***************************************************************************)
(* The keypad. is_key_down reads the key state the host keeps, which it    *)
(* updates from input events while main awaits next_frame: between one     *)
(* cycle's execute and the next cycle's fetch.                             *)
(***************************************************************************)
\* the sets of keys (indices into REAL_KEYCODES) held at one time
KeySets == {{}, {0}, {3}, {3, 12}, {15}}

KeyChange ==
    /\ eng = "fetch"
    /\ \E ks \in KeySets : ks # keys /\ keys' = ks
    /\ UNCHANGED <<eng, machine, timers, locks, ticker, overflow_checks, probe>>

NextKeys == Next \/ KeyChange

\* wait for a key into V0, then into V1; into VF, then jump 0x200
WaitRoms == {<<61450, 61706>>, <<65290, 4608>>}
\* V0 <- v, then skip if key V0 is held (E09E) or is not held (E0A1)
KeySkipRoms == {<<24576 + v, op>> : v \in {0, 3, 15, 16, 255}, op \in {57502, 57505}}

InitKeys == Boot(WaitRoms \cup KeySkipRoms \cup {TimerRom})
SpecKeys == InitKeys /\ [][NextKeys]_vars
SpecKeysLive == InitKeys /\ [][NextKeys]_vars /\ Fairness

(***************************************************************************)
(* C16: Fx0A fetched at a is a busy-poll. A cycle with no key held leaves  *)
(* pc = a and changes nothing else; a cycle with a key held leaves in Vx   *)
(* the index (0..15) of a held key and pc = a + 2, and changes nothing     *)
(* else; and a cycle that polls with a key held does advance past the      *)
(* instruction.                                                            *)
(***************************************************************************)
C16_WaitKeyPolls ==
    /\ [][(Stepped /\ IsWaitKey(instr) /\ keys = {}) =>
              /\ eng' = "fetch"
              /\ emu' = [emu EXCEPT !.pc = at]
         ]_vars
    /\ [][(Stepped /\ IsWaitKey(instr) /\ keys # {}) =>
              /\ eng' = "fetch"
              /\ \E k \in keys \cap (0 .. 15) :
                    emu' = [emu EXCEPT !.reg[WordX] = k]
              /\ emu'.pc = at + 2
         ]_vars
    /\ (eng = "execute" /\ IsWaitKey(instr) /\ keys # {})
          ~> (eng = "fetch" /\ IsWaitKey(instr) /\ emu.pc = at + 2)

\* F00A at 0x200 polled twice with no key held, then with keys 3 and 12 held
C16_Witness ==
    /\ eng = "fetch" /\ cycles = 3 /\ at = PROGRAM_START
    /\ getDWord(emu, PROGRAM_START) = 61450
    /\ keys = {3, 12} /\ emu.reg[0] = 3 /\ emu.pc = PROGRAM_START + 2

(***************************************************************************)
(* C18: Ex9E / ExA1 fetched at a, for every value of Vx, never faults and  *)
(* changes nothing but pc: pc = a + 4 when key number Vx (of 0..15) is     *)
(* held (Ex9E) or is not held (ExA1), and pc = a + 2 otherwise.            *)
(***************************************************************************)
C18_KeySkip ==
    [][(Stepped /\ Word \div 4096 = 14 /\ WordNN \in {158, 161}) =>
          LET Vx == emu.reg[WordX]
              skip == IF WordNN = 158 THEN Vx \in keys ELSE Vx \notin keys
          IN  /\ eng' = "fetch"
              /\ \E p \in {at + 2, at + 4} : emu' = [emu EXCEPT !.pc = p]
              /\ Vx \in 0 .. 15 => emu'.pc = IF skip THEN at + 4 ELSE at + 2
      ]_vars

(***************************************************************************)
(* Register-range programs: idx <- 0x300, V0 <- 0x11, V1 <- 0x22,          *)
(* V2 <- 0x33, store V0..Vx; idx <- 0 (the font), load V0..Vx; and         *)
(* V0 <- 0x11, V1 <- 0x22, idx <- 0x300, store V0..V1, V0 <- 0, V1 <- 0,   *)
(* load V0..V1.                                                            *)
(***************************************************************************)
RangeX == {0, 1, 2, 15}
RoundTripRom == <<24593, 24866, 41728, 61781, 24576, 24832, 61797>>
MemRoms ==
    {<<41728, 24593, 24866, 25139, 61525 + 256 * x>> : x \in RangeX}
        \cup {<<40960, 61541 + 256 * x>> : x \in RangeX}
        \cup {RoundTripRom}

InitMem == Boot(MemRoms \cup {TimerRom})
SpecMem == InitMem /\ [][Next]_vars

(***************************************************************************)
(* C17: Fx55 copies registers 0..x inclusive to memory at idx..idx + x and *)
(* Fx65 copies those x + 1 bytes into registers 0..x; nothing else         *)
(* changes; a store followed by a load with the same x and idx restores    *)
(* registers 0..x.                                                         *)
(***************************************************************************)
C17_RegisterRange ==
    [][/\ (Stepped /\ Word \div 4096 = 15 /\ WordNN = 85) =>
              /\ eng' = "fetch"
              /\ emu' = [emu EXCEPT !.mem = [a \in 0 .. MEM_SIZE - 1 |->
                            IF a >= emu.idx /\ a <= emu.idx + WordX
                            THEN emu.reg[a - emu.idx] ELSE emu.mem[a]]]
       /\ (Stepped /\ Word \div 4096 = 15 /\ WordNN = 101) =>
              /\ eng' = "fetch"
              /\ emu' = [emu EXCEPT !.reg = [i \in 0 .. 15 |->
                            IF i <= WordX THEN emu.mem[emu.idx + i] ELSE emu.reg[i]]]
       /\ (Stepped /\ cycles = 7 /\ Word = 61797
              /\ \A i \in 1 .. 7 : getDWord(emu, PROGRAM_START + 2 * (i - 1)) = RoundTripRom[i]) =>
              /\ emu'.reg[0] = 17
              /\ emu'.reg[1] = 34
      ]_vars

(***************************************************************************)
(* Programs with a word execute has no arm for: V0 <- 7, the word,         *)
(* V1 <- 5.                                                                *)
(***************************************************************************)
\* 0000 0123 00E1 0FFF, 8018 801F 8F09 8FFD, E000 E09F E1A0 EFFF,
\* F000 F00B F156 FF66 F1FF
UnknownWords ==
    {0, 291, 225, 4095, 32792, 32799, 36617, 36861, 57344, 57503, 57760, 61439,
     61440, 61451, 61782, 65382, 61951}
UnknownRoms == {<<24583, w, 24837>> : w \in UnknownWords}

InitUnknown == Boot(UnknownRoms \cup {TimerRom})
SpecUnknown == InitUnknown /\ [][Next]_vars

(***************************************************************************)
(* C19: a word that matches no instruction (0nnn other than 00E0 and 00EE, *)
(* 8xyN with N outside 0..7 and E, Exnn other than 9E and A1, Fxnn outside *)
(* 07 0A 15 18 1E 29 33 55 65), fetched at a, is not fatal: pc = a + 2,    *)
(* registers, index register, stack, memory, framebuffer and timers are    *)
(* unchanged, and the engine goes on to the next fetch.                    *)
(***************************************************************************)
C19_UnknownIsSkipped ==
    [][(/\ Stepped
        /\ \/ Word \div 4096 = 0 /\ Word \notin {224, 238}
           \/ Word \div 4096 = 8 /\ WordN \notin (0 .. 7) \cup {14}
           \/ Word \div 4096 = 14 /\ WordNN \notin {158, 161}
           \/ Word \div 4096 = 15 /\ WordNN \notin {7, 10, 21, 24, 30, 41, 51, 85, 101}) =>
          /\ eng' = "fetch"
          /\ emu' = emu
          /\ emu.pc = at + 2
          /\ delay' = delay /\ sound' = sound
      ]_vars

\* 801F was the second word, and the third has been fetched and executed
C19_Witness ==
    /\ eng = "fetch" /\ cycles = 3 /\ at = PROGRAM_START + 4
    /\ getDWord(emu, PROGRAM_START + 2) = 32799
    /\ emu.reg[0] = 7 /\ emu.reg[1] = 5 /\ emu.pc = PROGRAM_START + 6

(***************************************************************************)
(* The decoder on its own: decode(raw), then decode(raw) again, for every  *)
(* 16-bit word.                                                            *)
(***************************************************************************)
InitDecode ==
    /\ Idle
    /\ emu = EmulatorInit
    /\ \E raw \in 0 .. U16 - 1 : probe = [n |-> 0, raw |-> raw, first |-> NoInstr]

\* let instr = decode(raw);
Decode ==
    /\ probe.n < 2
    /\ instr' = decode(probe.raw)
    /\ probe' = [probe EXCEPT !.n = @ + 1,
                              !.first = IF probe.n = 0 THEN decode(probe.raw) ELSE @]
    /\ UNCHANGED <<emu, delay, sound, delayLock, soundLock, eng, tpc, td, keys,
                   overflow_checks, access, at, calls, cycles, dSet, dTicks, sSet, sTicks>>

NextDecode == Decode
SpecDecode == InitDecode /\ [][NextDecode]_vars

(***************************************************************************)
(* C20: for every 16-bit word decode returns the opcode nibble (bits       *)
(* 15-12) and the operands of exactly one layout (A: bits 11-0; B: bits    *)
(* 11-8 and bits 7-0; C: bits 11-8, bits 7-4 and bits 3-0), every operand  *)
(* within its field's range, the layout depending on the nibble only; and  *)
(* a second decode of the word returns the same instruction.               *)
(***************************************************************************)
C20_DecodeTotal ==
    LET raw == probe.raw
        A == [opcode |-> raw \div 4096, op1 |-> Some(raw % 4096), op2 |-> None, op3 |-> None]
        B == [opcode |-> raw \div 4096, op1 |-> Some((raw \div 256) % 16),
              op2 |-> Some(raw % 256), op3 |-> None]
        C == [opcode |-> raw \div 4096, op1 |-> Some((raw \div 256) % 16),
              op2 |-> Some((raw \div 16) % 16), op3 |-> Some(raw % 16)]
        operands(i) == Len(i.op1) + Len(i.op2) + Len(i.op3)
    IN  /\ probe.n >= 1 =>
              /\ probe.first \in {A, B, C}
              /\ \A low \in {0, 1, 4095} :
                    operands(decode((raw \div 4096) * 4096 + low)) = operands(probe.first)
        /\ probe.n = 2 => instr = probe.first

====
